---------------------------- MODULE Spec2Model ----------------------------
(***************************************************************************)
(* A model of the ccflare proxy core:                                      *)
(*   - OAuthRepository, the session store (src/unnamed/part_000);          *)
(*   - AnthropicOAuthProvider.exchangeCode (providers/anthropic/oauth.ts); *)
(*   - proxyWithAccount / proxyUnauthenticated (same file, second half),   *)
(*     with the dispatch loop and the token manager that call them and     *)
(*     are called by them.                                                 *)
(* Optional values (a parameter left out, SQL NULL, JS undefined/null) are *)
(* sequences of length at most one: <<>> is "absent", <<v>> is v.          *)
(***************************************************************************)
EXTENDS Integers, Sequences, FiniteSets, TLC

VARIABLES
    \* ---- session store ----
    oauth_sessions,   \* the rows of table oauth_sessions
    now,              \* Date.now(), in milliseconds
    ret,              \* what the last repository call returned or threw
    \* ---- exchangeCode ----
    exIn,             \* the arguments of the call: code, stateParam
    exPc,             \* "idle", "start", "fetching", "returned", "threw"
    exRequests,       \* the bodies POSTed to the token endpoint, in order
    exOut,            \* the TokenResult returned or the error thrown
    \* ---- accounts and token manager ----
    accounts,         \* per account: api_key, refresh_token, access_token, ...
    refreshInFlight,  \* per account: a refresh request is in flight
    refreshCalls,     \* per account: refresh requests sent to the token endpoint
    refreshLog,       \* per account: how each finished refresh ended
    \* ---- dispatch, per inbound request ----
    candidates,       \* the ordered candidate list
    pc,               \* "idle", "select", "token", "send", "unauth", "done"
    idx,              \* position in the candidate list (from 1)
    tokenResult,      \* the getValidAccessToken call being awaited
    log,              \* the attempts made, in order
    records,          \* the forwarding records handed to forwardToClient
    result            \* what the engine returned or raised to its caller

storeVars == <<oauth_sessions, now, ret>>

exchangeVars == <<exIn, exPc, exRequests, exOut>>

accountVars == <<accounts, refreshInFlight, refreshCalls, refreshLog>>

requestVars == <<candidates, pc, idx, tokenResult, log, records, result>>

dispatchVars == <<accountVars, requestVars>>

vars == <<storeVars, exchangeVars, dispatchVars>>

\* What a step of the session store leaves alone, and a step of exchangeCode.
notStoreVars == <<exchangeVars, dispatchVars>>

notExchangeVars == <<oauth_sessions, ret, dispatchVars>>

notDispatchVars == <<storeVars, exchangeVars>>

None == <<>>

Some(x) == <<x>>

\* No repository call has returned at the current instant.
NoCall == [op |-> "none", id |-> "", ttl |-> None, threw |-> FALSE, value |-> None]

\* The session store as constructed, with no call made.
StoreIdle ==
    /\ oauth_sessions = {}
    /\ ret = NoCall

\* Number of accounts and of inbound requests in the dispatch model.
NumAccounts == 2

NumRequests == 2

Accounts == 1..NumAccounts

Requests == 1..NumRequests

\* No getValidAccessToken call is being awaited.
NoTokenCall == [state |-> "none", token |-> "", flight |-> 0]

\* No inbound request has arrived and no refresh was ever started.
DispatchIdle ==
    /\ accounts = [a \in Accounts |->
           [api_key |-> Some("key"), refresh_token |-> None,
            access_token |-> None, token_fresh |-> FALSE,
            rate_limited_until |-> None]]
    /\ refreshInFlight = [a \in Accounts |-> FALSE]
    /\ refreshCalls = [a \in Accounts |-> 0]
    /\ refreshLog = [a \in Accounts |-> <<>>]
    /\ candidates = [r \in Requests |-> <<>>]
    /\ pc = [r \in Requests |-> "idle"]
    /\ idx = [r \in Requests |-> 1]
    /\ tokenResult = [r \in Requests |-> NoTokenCall]
    /\ log = [r \in Requests |-> <<>>]
    /\ records = [r \in Requests |-> <<>>]
    /\ result = [r \in Requests |-> None]

\* exchangeCode is not being called.
ExchangeIdle ==
    /\ exIn = [code |-> <<>>, stateParam |-> None]
    /\ exPc = "idle"
    /\ exRequests = <<>>
    /\ exOut = None

\* JS truthiness of an optional string: undefined, null and "" are falsy.
Truthy(opt) == opt /= None /\ opt[1] /= ""

(***************************************************************************)
(* Session store                                                           *)
(***************************************************************************)

\* Largest minute the clock of the store model reaches.
MaxMinutes == 1

\* The instants the clock can show: each whole minute, 1 ms before, 1 ms after.
ClockValues ==
    { t \in { k * 60 * 1000 + d : k \in 0..MaxMinutes, d \in {-1, 0, 1} } : t >= 0 }

SessionIds == {"sess1", "sess2"}

\* The caller's arguments other than the id and the ttl.
SessionInputs ==
    { [accountName |-> "alice", verifier |-> "v1", mode |-> "console",
       tier |-> 1, state |-> Some("st1")],
      [accountName |-> "bob", verifier |-> "v2", mode |-> "max",
       tier |-> 5, state |-> None],
      [accountName |-> "bob", verifier |-> "v3", mode |-> "max",
       tier |-> 20, state |-> Some("")] }

\* ttlMinutes as passed: left out, negative, zero, positive.
TtlInputs == {None, Some(-1), Some(0), Some(1)}

\* createSession(..., ttlMinutes = 10, ...)
DefaultTtlMinutes == 10

TtlMinutesOrDefaultIfZero(ttlArg) ==
    IF ttlArg = None \/ ttlArg[1] = 0 THEN DefaultTtlMinutes ELSE ttlArg[1]

TtlMinutes(ttlArg) == IF ttlArg = None THEN DefaultTtlMinutes ELSE ttlArg[1]

\* state || null
StateOrNull(state) == IF Truthy(state) THEN state ELSE None

\* The row createSession binds to its INSERT statement.
SessionRow(sessionId, in, ttlArg, clock) ==
    [id |-> sessionId,
     account_name |-> in.accountName,
     verifier |-> in.verifier,
     mode |-> in.mode,
     tier |-> in.tier,
     created_at |-> clock,
     expires_at |-> clock + TtlMinutes(ttlArg) * 60 * 1000,
     state |-> StateOrNull(in.state)]

\* oauth_sessions.id is the table's primary key: an INSERT of a taken id fails.
PrimaryKeyTaken(table, sessionId) == \E row \in table : row.id = sessionId

\* INSERT INTO oauth_sessions (...) VALUES (...): a plain insert.
InsertRow(table, row) == table \cup {row}

\* INSERT OR REPLACE: what the statement is not.
RunInsertOrReplace(table, row) ==
    [table |-> { r \in table : r.id /= row.id } \cup {row}, threw |-> FALSE]

\* this.run(`INSERT INTO oauth_sessions ...`, [...]): the statement throws on a
\* constraint violation and then changes nothing.
RunInsert(table, row) ==
    IF PrimaryKeyTaken(table, row.id)
    THEN [table |-> table, threw |-> TRUE]
    ELSE [table |-> InsertRow(table, row), threw |-> FALSE]

createSession(sessionId, in, ttlArg) ==
    LET row == SessionRow(sessionId, in, ttlArg, now)
        done == RunInsert(oauth_sessions, row)
    IN
    /\ oauth_sessions' = done.table
    /\ ret' = [op |-> "createSession", id |-> sessionId, ttl |-> ttlArg,
               threw |-> done.threw, value |-> None]
    /\ UNCHANGED <<now, notStoreVars>>

SelectSessionLax(table, sessionId, clock) ==
    { row \in table : row.id = sessionId /\ row.expires_at >= clock }

SelectSessionIgnoringExpiry(table, sessionId, clock) ==
    { row \in table : row.id = sessionId }

\* WHERE id = ? AND expires_at > ?
SelectSession(table, sessionId, clock) ==
    { row \in table : row.id = sessionId /\ row.expires_at > clock }

\* What getSession returns for a table and a clock value: null or the session.
SessionOf(table, sessionId, clock) ==
    LET rows == SelectSession(table, sessionId, clock) IN
    IF rows = {} THEN None
    ELSE LET row == CHOOSE r \in rows : TRUE IN
         Some([accountName |-> row.account_name,
               verifier |-> row.verifier,
               state |-> row.state,
               mode |-> row.mode,
               tier |-> row.tier])

RowsAfterSelectAndDelete(table, sessionId) ==
    { row \in table : row.id /= sessionId }

\* The table after this.get(`SELECT ... FROM oauth_sessions ...`): a SELECT
\* writes nothing.
RowsAfterSelect(table, sessionId) == table

getSession(sessionId) ==
    /\ ret' = [op |-> "getSession", id |-> sessionId, ttl |-> None,
               threw |-> FALSE, value |-> SessionOf(oauth_sessions, sessionId, now)]
    /\ oauth_sessions' = RowsAfterSelect(oauth_sessions, sessionId)
    /\ UNCHANGED <<now, notStoreVars>>

RunDeleteOrThrow(table, sessionId) ==
    [table |-> { row \in table : row.id /= sessionId },
     threw |-> ~\E row \in table : row.id = sessionId]

\* this.run(`DELETE FROM oauth_sessions WHERE id = ?`, [sessionId]): a DELETE
\* that matches no row is not an error.
RunDelete(table, sessionId) ==
    [table |-> { row \in table : row.id /= sessionId }, threw |-> FALSE]

deleteSession(sessionId) ==
    LET done == RunDelete(oauth_sessions, sessionId) IN
    /\ oauth_sessions' = done.table
    /\ ret' = [op |-> "deleteSession", id |-> sessionId, ttl |-> None,
               threw |-> done.threw, value |-> None]
    /\ UNCHANGED <<now, notStoreVars>>

ExpiredRowsStrict(table, clock) == { row \in table : row.expires_at < clock }

\* WHERE expires_at <= ?
ExpiredRows(table, clock) == { row \in table : row.expires_at <= clock }

cleanupExpiredSessions ==
    LET gone == ExpiredRows(oauth_sessions, now) IN
    /\ oauth_sessions' = oauth_sessions \ gone
    /\ ret' = [op |-> "cleanupExpiredSessions", id |-> "", ttl |-> None,
               threw |-> FALSE, value |-> Some(Cardinality(gone))]
    /\ UNCHANGED <<now, notStoreVars>>

\* Time passes between two calls; ret holds the result of a call made at the
\* current instant, so it is dropped when the clock moves.
Tick ==
    /\ \E t \in ClockValues : t > now /\ now' = t
    /\ ret' = NoCall
    /\ UNCHANGED <<oauth_sessions, notStoreVars>>

InitStore ==
    /\ StoreIdle
    /\ now \in { t \in ClockValues : t <= 1 }
    /\ ExchangeIdle
    /\ DispatchIdle

NextStore ==
    \/ \E sessionId \in SessionIds, in \in SessionInputs, ttlArg \in TtlInputs :
           createSession(sessionId, in, ttlArg)
    \/ \E sessionId \in SessionIds : getSession(sessionId)
    \/ \E sessionId \in SessionIds : deleteSession(sessionId)
    \/ cleanupExpiredSessions
    \/ Tick

SpecStore == InitStore /\ [][NextStore]_vars

(***************************************************************************)
(* Claims about the session store (checked under SpecStore)                *)
(***************************************************************************)

SessionFields(row) ==
    [accountName |-> row.account_name, verifier |-> row.verifier,
     state |-> row.state, mode |-> row.mode, tier |-> row.tier]

\* C4: getSession returns a session only if a row with that id exists and
\* now < expires_at, at every clock value; a row with expires_at <= now that is
\* still stored is reported absent.  A session is returned 1 ms before
\* created_at + ttl and is absent at created_at + ttl and 1 ms after it.
C4_ReadTimeExpiry ==
    /\ \A id \in SessionIds, t \in ClockValues :
           SessionOf(oauth_sessions, id, t) /= None
               => \E row \in oauth_sessions : row.id = id /\ t < row.expires_at
    /\ \A row \in oauth_sessions :
           /\ SessionOf(oauth_sessions, row.id, row.expires_at - 1)
                  = Some(SessionFields(row))
           /\ SessionOf(oauth_sessions, row.id, row.expires_at) = None
           /\ SessionOf(oauth_sessions, row.id, row.expires_at + 1) = None
    /\ ret.op = "getSession" =>
           (ret.value /= None
               <=> \E row \in oauth_sessions : row.id = ret.id /\ now < row.expires_at)
    /\ (ret.op = "createSession" /\ ~ret.threw) =>
           LET ttl == TtlMinutes(ret.ttl) * 60 * 1000 IN
           /\ SessionOf(oauth_sessions, ret.id, now + ttl - 1) /= None
           /\ SessionOf(oauth_sessions, ret.id, now + ttl) = None
           /\ SessionOf(oauth_sessions, ret.id, now + ttl + 1) = None

\* getSession has just reported absent a row that is still stored and whose
\* expiry is exactly the current instant.
C4_Witness ==
    /\ ret.op = "getSession"
    /\ ret.value = None
    /\ \E row \in oauth_sessions :
           row.id = ret.id /\ row.expires_at = now /\ row.created_at < now

\* C5: cleanupExpiredSessions removes exactly the rows with expires_at <= now,
\* keeps every row with expires_at > now as it was, returns the number of rows
\* removed, and getSession on a removed id is absent afterwards.
C5_CleanupExact ==
    [][ret'.op = "cleanupExpiredSessions" =>
          /\ oauth_sessions' = { row \in oauth_sessions : row.expires_at > now }
          /\ ret'.value =
                 Some(Cardinality({ row \in oauth_sessions : row.expires_at <= now }))
          /\ \A row \in oauth_sessions :
                 row.expires_at <= now
                     => SessionOf(oauth_sessions', row.id, now') = None]_vars

\* A sweep has just removed one row whose expiry is the current instant and
\* left an unexpired one.
C5_Witness ==
    /\ ret.op = "cleanupExpiredSessions"
    /\ ret.value = Some(1)
    /\ \E row \in oauth_sessions : row.expires_at > now
    /\ now > 1

\* C10: createSession with an id that is already stored fails and leaves the
\* table as it was, also when the stored row is expired and not yet swept.
C10_NoOverwrite ==
    [][(ret'.op = "createSession"
            /\ \E row \in oauth_sessions : row.id = ret'.id)
          => (ret'.threw /\ oauth_sessions' = oauth_sessions)]_vars

\* createSession has just failed on an id whose stored row is expired.
C10_Witness ==
    /\ ret.op = "createSession"
    /\ ret.threw
    /\ \E row \in oauth_sessions : row.id = ret.id /\ row.expires_at <= now

\* C12: deleteSession never fails; it removes the row with the given id and no
\* other row; when no row has that id it leaves the table as it was; a second
\* deleteSession of the same id right after the first changes nothing.
C12_DeleteIdempotent ==
    [][ret'.op = "deleteSession" =>
          /\ ~ret'.threw
          /\ \A row \in oauth_sessions : row \in oauth_sessions' <=> row.id /= ret'.id
          /\ oauth_sessions' \subseteq oauth_sessions
          /\ (~\E row \in oauth_sessions : row.id = ret'.id)
                 => oauth_sessions' = oauth_sessions
          /\ (ret.op = "deleteSession" /\ ret.id = ret'.id)
                 => oauth_sessions' = oauth_sessions]_vars

\* deleteSession has just returned normally; no row has its id and the row of
\* the other id is still stored.
C12_Witness ==
    /\ ret.op = "deleteSession"
    /\ ~ret.threw
    /\ ~\E row \in oauth_sessions : row.id = ret.id
    /\ \E row \in oauth_sessions : row.id /= ret.id

\* The lifetime in milliseconds that the caller of createSession asked for.
AskedLifetime(ttlArg) ==
    (IF ttlArg = None THEN 10 ELSE ttlArg[1]) * 60 * 1000

\* C17: the row written by createSession has created_at = now and expires_at
\* = created_at + ttlMinutes*60*1000, with ttlMinutes 10 when left out, also
\* for a zero and a negative ttlMinutes; every stored row has such a lifetime;
\* and with a clock that does not run backwards a row created with
\* ttlMinutes <= 0 is returned by no getSession, at its creation instant or
\* later.
C17_ExpiryFromTtl ==
    [][/\ (ret'.op = "createSession" /\ ~ret'.threw) =>
              \E row \in oauth_sessions' :
                  /\ row.id = ret'.id
                  /\ row \notin oauth_sessions
                  /\ row.created_at = now
                  /\ row.expires_at = row.created_at + AskedLifetime(ret'.ttl)
       /\ \A row \in oauth_sessions' :
              /\ \E ttlArg \in TtlInputs :
                     row.expires_at = row.created_at + AskedLifetime(ttlArg)
              /\ row.created_at <= now'
              /\ row.expires_at <= row.created_at =>
                     \A t \in ClockValues :
                         t >= row.created_at
                             => SessionOf(oauth_sessions', row.id, t) = None
       /\ (ret'.op = "getSession" /\ ret'.value /= None) =>
              \E row \in oauth_sessions' :
                  row.id = ret'.id /\ row.expires_at > row.created_at]_vars

\* getSession has just reported absent a session that was created at this
\* very instant with a zero ttl and is still stored.
C17_Witness ==
    /\ ret.op = "getSession"
    /\ ret.value = None
    /\ \E row \in oauth_sessions :
           row.id = ret.id /\ row.created_at = now /\ row.expires_at = now

\* The SELECT of getSession finds the row at clock value t.
Readable(table, row, t) == row \in SelectSession(table, row.id, t)

\* The DELETE of cleanupExpiredSessions takes the row at clock value t.
Removable(table, row, t) == row \in ExpiredRows(table, t)

\* C18: at every clock value every stored row is either readable by
\* getSession or removable by cleanupExpiredSessions, and not both; a sweep
\* removes no row that getSession would return at that instant and leaves no
\* row that getSession reports absent at that instant.
C18_ReadSweepComplementary ==
    [][/\ \A row \in oauth_sessions', t \in ClockValues :
              Readable(oauth_sessions', row, t) <=> ~Removable(oauth_sessions', row, t)
       /\ ret'.op = "cleanupExpiredSessions" =>
              /\ \A row \in oauth_sessions \ oauth_sessions' :
                     SessionOf(oauth_sessions, row.id, now) = None
              /\ \A row \in oauth_sessions' :
                     /\ row \in oauth_sessions
                     /\ SessionOf(oauth_sessions, row.id, now) /= None
                     /\ SessionOf(oauth_sessions', row.id, now') /= None
              /\ \A row \in oauth_sessions :
                     SessionOf(oauth_sessions, row.id, now) = None
                         => row \notin oauth_sessions']_vars

\* A sweep has just removed one row and left a row that expires one
\* millisecond later.
C18_Witness ==
    /\ ret.op = "cleanupExpiredSessions"
    /\ ret.value = Some(1)
    /\ \E row \in oauth_sessions : row.expires_at = now + 1

\* C19: getSession leaves the table as it was, and a read repeated at the same
\* instant returns the same value; a session that stays readable keeps its
\* accountName, verifier, state, mode and tier; a readable session becomes
\* absent only in a deleteSession of its id, in a sweep, or when the clock
\* moves; and with a clock that does not run backwards an absent session
\* becomes readable only in a successful createSession of its id.
C19_ReadDoesNotConsume ==
    [][/\ now' >= now
       /\ ret'.op = "getSession" =>
              /\ oauth_sessions' = oauth_sessions
              /\ ret'.value = SessionOf(oauth_sessions', ret'.id, now')
              /\ (ret.op = "getSession" /\ ret.id = ret'.id) => ret'.value = ret.value
       /\ \A id \in SessionIds :
              LET before == SessionOf(oauth_sessions, id, now)
                  after == SessionOf(oauth_sessions', id, now')
              IN
              /\ (before /= None /\ after /= None) => after = before
              /\ (before /= None /\ after = None) =>
                     \/ ret'.op = "deleteSession" /\ ret'.id = id
                     \/ ret'.op = "cleanupExpiredSessions"
                     \/ now' > now
              /\ (before = None /\ after /= None) =>
                     /\ ret'.op = "createSession"
                     /\ ret'.id = id
                     /\ ~ret'.threw]_vars

\* getSession has just returned a session that was created at an earlier
\* instant, and its row is still stored.
C19_Witness ==
    /\ ret.op = "getSession"
    /\ ret.value /= None
    /\ \E row \in oauth_sessions :
           /\ row.id = ret.id
           /\ row.created_at < now
           /\ ret.value = Some(SessionFields(row))

(***************************************************************************)
(* AnthropicOAuthProvider.exchangeCode                                     *)
(* Strings the function takes apart are sequences of one-character strings.*)
(***************************************************************************)

\* Longest code argument enumerated character by character.
MaxCodeLen == 3

Chars == {"a", "b", "#"}

StringsUpTo(n) == UNION { [1..k -> Chars] : k \in 0..n }

Abc123 == <<"a", "b", "c", "1", "2", "3">>

StateXYZ == <<"s", "t", "a", "t", "e", "X", "Y", "Z">>

ExampleCodes ==
    { Abc123 \o <<"#">> \o StateXYZ, Abc123, <<"a", "#", "b", "#", "c">> }

CodeInputs == StringsUpTo(MaxCodeLen) \cup ExampleCodes

\* stateParam as passed: left out, "", and two non-empty values.
StateParamInputs == {None, Some(<<>>), Some(<<"b">>), Some(<<"s", "t">>)}

\* code.includes("#")
Includes(str, ch) == \E i \in 1..Len(str) : str[i] = ch

\* The index of the first ch in str (str includes ch).
FirstIndexOf(str, ch) ==
    CHOOSE i \in 1..Len(str) :
        str[i] = ch /\ \A j \in 1..(i - 1) : str[j] /= ch

\* str.split(ch): the segments between every occurrence of ch.
RECURSIVE Split(_, _)
Split(str, ch) ==
    IF ~Includes(str, ch) THEN <<str>>
    ELSE LET i == FirstIndexOf(str, ch) IN
         <<SubSeq(str, 1, i - 1)>> \o Split(SubSeq(str, i + 1, Len(str)), ch)

\* authCode and extractedState of exchangeCode (splits[0], splits[1] || "").
ParseCode(code) ==
    IF Includes(code, "#")
    THEN LET splits == Split(code, "#") IN
         [authCode |-> splits[1],
          extractedState |-> IF splits[2] /= <<>> THEN splits[2] ELSE <<>>]
    ELSE [authCode |-> code, extractedState |-> <<>>]

FinalStatePreferExtracted(stateParam, extractedState) ==
    IF extractedState /= <<>> THEN extractedState
    ELSE IF stateParam /= None THEN stateParam[1] ELSE <<>>

\* stateParam || extractedState
FinalState(stateParam, extractedState) ==
    IF stateParam /= None /\ stateParam[1] /= <<>>
    THEN stateParam[1]
    ELSE extractedState

\* The config and verifier of the call; exchangeCode only copies them.
ExchangeConfig ==
    [tokenUrl |-> "https://console.anthropic.com/v1/oauth/token",
     clientId |-> "client-id",
     redirectUri |-> "https://console.anthropic.com/oauth/code/callback"]

ExchangeVerifier == "verifier"

RequestBody(code, verifier, config, stateParam) ==
    LET parsed == ParseCode(code) IN
    [grant_type |-> "authorization_code",
     code |-> parsed.authCode,
     redirect_uri |-> config.redirectUri,
     client_id |-> config.clientId,
     code_verifier |-> verifier,
     state |-> FinalState(stateParam, parsed.extractedState)]

\* What the token endpoint can answer.  A success carries the token payload or
\* a body response.json() cannot parse; a failure carries a status text and a
\* body that JSON.parse takes (errorDetails) or rejects (None).
TokenResponses ==
    { [ok |-> TRUE, statusText |-> "OK",
       json |-> Some([access_token |-> "T", refresh_token |-> "R",
                      expires_in |-> 3600]),
       errorDetails |-> None],
      [ok |-> TRUE, statusText |-> "OK", json |-> None, errorDetails |-> None] }
    \cup
    { [ok |-> FALSE, statusText |-> st, json |-> None, errorDetails |-> det] :
        st \in {"", "Bad Request"},
        det \in {None}
            \cup { Some([error |-> e, error_description |-> d]) :
                     e \in {None, Some("invalid_grant")},
                     d \in {None, Some(""), Some("Invalid code")} } }

ErrorMessagePreferError(response) ==
    LET det == response.errorDetails IN
    IF det /= None /\ Truthy(det[1].error)
    THEN det[1].error[1]
    ELSE IF det /= None /\ Truthy(det[1].error_description)
    THEN det[1].error_description[1]
    ELSE IF response.statusText /= ""
    THEN response.statusText
    ELSE "OAuth token exchange failed"

\* errorDetails?.error_description || errorDetails?.error ||
\* response.statusText || "OAuth token exchange failed"
ErrorMessage(response) ==
    LET det == response.errorDetails IN
    IF det /= None /\ Truthy(det[1].error_description)
    THEN det[1].error_description[1]
    ELSE IF det /= None /\ Truthy(det[1].error)
    THEN det[1].error[1]
    ELSE IF response.statusText /= ""
    THEN response.statusText
    ELSE "OAuth token exchange failed"

\* exchangeCode up to its await of fetch: build the body and POST it.
exchangeCodeSend ==
    /\ exPc = "start"
    /\ exRequests' = Append(exRequests,
           RequestBody(exIn.code, ExchangeVerifier, ExchangeConfig, exIn.stateParam))
    /\ exPc' = "fetching"
    /\ UNCHANGED <<exIn, exOut, now, notExchangeVars>>

\* fetch rejects: the error leaves exchangeCode as it is.
exchangeCodeFetchFails ==
    /\ exPc = "fetching"
    /\ exPc' = "threw"
    /\ exOut' = Some([kind |-> "FetchError"])
    /\ UNCHANGED <<exIn, exRequests, now, notExchangeVars>>

\* exchangeCode from the response on.
exchangeCodeReceive(response) ==
    /\ exPc = "fetching"
    /\ IF ~response.ok
       THEN /\ exPc' = "threw"
            /\ exOut' = Some([kind |-> "OAuthError",
                              message |-> ErrorMessage(response),
                              provider |-> "anthropic",
                              code |-> IF response.errorDetails = None THEN None
                                       ELSE response.errorDetails[1].error])
       ELSE IF response.json = None
       THEN /\ exPc' = "threw"
            /\ exOut' = Some([kind |-> "SyntaxError"])
       ELSE /\ exPc' = "returned"
            /\ exOut' = Some([kind |-> "TokenResult",
                              refreshToken |-> response.json[1].refresh_token,
                              accessToken |-> response.json[1].access_token,
                              expiresAt |-> now + response.json[1].expires_in * 1000])
    /\ UNCHANGED <<exIn, exRequests, now, notExchangeVars>>

InitExchange ==
    /\ exIn \in [code : CodeInputs, stateParam : StateParamInputs]
    /\ exPc = "start"
    /\ exRequests = <<>>
    /\ exOut = None
    /\ now \in {0, 1}
    /\ StoreIdle
    /\ DispatchIdle

NextExchange ==
    \/ exchangeCodeSend
    \/ exchangeCodeFetchFails
    \/ \E response \in TokenResponses : exchangeCodeReceive(response)

SpecExchange == InitExchange /\ [][NextExchange]_vars

(***************************************************************************)
(* Claims about exchangeCode (checked under SpecExchange)                  *)
(***************************************************************************)

\* The part of str before its first "#", and the whole part after it.
BeforeFirstHash(str) == SubSeq(str, 1, FirstIndexOf(str, "#") - 1)

AfterFirstHash(str) == SubSeq(str, FirstIndexOf(str, "#") + 1, Len(str))

\* stateParam was supplied: passed and not the empty string.
Supplied(stateParam) == stateParam /= None /\ stateParam[1] /= <<>>

\* C8: for an input with one or more "#", the code sent is the part before the
\* first "#" and the fallback state (the state sent when no stateParam is
\* supplied) is the entire part after the first "#"; an input with no "#" is
\* sent whole as the code.
C8_SplitOnFirstHash ==
    exRequests /= <<>> =>
        LET body == exRequests[1] IN
        IF Includes(exIn.code, "#")
        THEN /\ body.code = BeforeFirstHash(exIn.code)
             /\ ~Supplied(exIn.stateParam)
                    => body.state = AfterFirstHash(exIn.code)
        ELSE body.code = exIn.code

\* C9: the state sent is the supplied stateParam when there is one, otherwise
\* the state extracted from the code argument, otherwise the empty string;
\* "abc123#stateXYZ" without stateParam gives code "abc123" and state
\* "stateXYZ", "abc123" alone gives code "abc123" and the empty state.
C9_StatePrecedence ==
    exRequests /= <<>> =>
        LET body == exRequests[1] IN
        /\ Supplied(exIn.stateParam) => body.state = exIn.stateParam[1]
        /\ (~Supplied(exIn.stateParam) /\ Includes(exIn.code, "#"))
               => body.state = ParseCode(exIn.code).extractedState
        /\ (~Supplied(exIn.stateParam) /\ ~Includes(exIn.code, "#"))
               => body.state = <<>>
        /\ (exIn.code = Abc123 \o <<"#">> \o StateXYZ /\ exIn.stateParam = None)
               => (body.code = Abc123 /\ body.state = StateXYZ)
        /\ (exIn.code = Abc123 /\ exIn.stateParam = None)
               => (body.code = Abc123 /\ body.state = <<>>)

\* A request was sent with a supplied stateParam that differs from the
\* non-empty state extracted from the code argument.
C9_Witness ==
    /\ exRequests /= <<>>
    /\ Supplied(exIn.stateParam)
    /\ ParseCode(exIn.code).extractedState /= <<>>
    /\ ParseCode(exIn.code).extractedState /= exIn.stateParam[1]
    /\ exRequests[1].state = exIn.stateParam[1]

\* The first of the texts that is present and not empty, else the last one.
FirstNonEmpty(description, error, last) ==
    IF Truthy(description) THEN description[1]
    ELSE IF Truthy(error) THEN error[1]
    ELSE last

\* The error fields of a failure body that JSON.parse took, absent otherwise.
DescriptionOf(response) ==
    IF response.errorDetails = None THEN None
    ELSE response.errorDetails[1].error_description

ErrorOf(response) ==
    IF response.errorDetails = None THEN None
    ELSE response.errorDetails[1].error

\* What a call that got a response did, with the message of a failure given
\* by Message(response): one request in all; a success with a token payload
\* ends in the TokenResult of that payload; a failure ends in an OAuthError
\* with that message and the provider's error code, and in no TokenResult.
ExchangeOutcomeIs(response, Message(_)) ==
    /\ Len(exRequests') = 1
    /\ (response.ok /\ response.json /= None) =>
           /\ exPc' = "returned"
           /\ exOut' = Some([kind |-> "TokenResult",
                             refreshToken |-> response.json[1].refresh_token,
                             accessToken |-> response.json[1].access_token,
                             expiresAt |-> now + response.json[1].expires_in * 1000])
    /\ ~response.ok =>
           /\ exPc' = "threw"
           /\ exOut' /= None
           /\ exOut'[1].kind = "OAuthError"
           /\ exOut'[1].message = Message(response)
           /\ exOut'[1].code = ErrorOf(response)

\* The message as the specification words it: description, else error code,
\* else the raw status text.
MessageDownToStatusText(response) ==
    FirstNonEmpty(DescriptionOf(response), ErrorOf(response), response.statusText)

\* The message with the fixed text that stands in for an empty status text.
MessageDownToFixedText(response) ==
    FirstNonEmpty(DescriptionOf(response), ErrorOf(response),
                  IF response.statusText /= "" THEN response.statusText
                  ELSE "OAuth token exchange failed")

\* C11 as stated: one request per call and no retry; a success response gives
\* a TokenResult with the provider's tokens and expiresAt = now +
\* expires_in*1000; every non-success response gives an OAuthError whose
\* message is error_description, else error, else the raw status text, whose
\* code is the provider's error, and no TokenResult.
C11_AsStated ==
    [][\A response \in TokenResponses :
           exchangeCodeReceive(response) =>
               ExchangeOutcomeIs(response, MessageDownToStatusText)]_vars

\* C11, amended: one request per call and no retry; a success response gives
\* a TokenResult with the provider's tokens and expiresAt = now +
\* expires_in*1000; every non-success response gives an OAuthError whose
\* message is the first non-empty of error_description, error, the raw status
\* text and the fixed text "OAuth token exchange failed", whose code is the
\* provider's error when the body parsed, and no TokenResult.
C11_ExchangeOutcome ==
    [][/\ Len(exRequests') <= 1
       /\ exPc' \in {"fetching", "returned", "threw"} => Len(exRequests') = 1
       /\ \A response \in TokenResponses :
              exchangeCodeReceive(response) =>
                  ExchangeOutcomeIs(response, MessageDownToFixedText)]_vars

\* A failure whose body carried an error code and an empty description was
\* raised with the code as its message, after a single request.
C11_Witness ==
    /\ exPc = "threw"
    /\ Len(exRequests) = 1
    /\ exOut = Some([kind |-> "OAuthError", message |-> "invalid_grant",
                     provider |-> "anthropic", code |-> Some("invalid_grant")])

(***************************************************************************)
(* Failover dispatch: proxyWithAccount and proxyUnauthenticated, the loop  *)
(* that calls them and the token manager they call.  An async function is  *)
(* one action per stretch between two awaits.                              *)
(***************************************************************************)

\* An ordered candidate list names no account twice.
CandidateLists ==
    { list \in UNION { [1..n -> Accounts] : n \in 0..NumAccounts } :
        \A i, j \in 1..Len(list) : i /= j => list[i] /= list[j] }

\* An account as stored: a console account with a static key, or an OAuth
\* account with a refresh token and a cached access token, expired or not.
AccountConfigs ==
    { [api_key |-> Some("key"), refresh_token |-> None, access_token |-> None,
       token_fresh |-> FALSE, rate_limited_until |-> None] }
    \cup
    { [api_key |-> None, refresh_token |-> Some("refresh"),
       access_token |-> Some("tok0"), token_fresh |-> fresh,
       rate_limited_until |-> None] : fresh \in BOOLEAN }

\* An upstream response: its status and what the provider's inspector says of it.
Responses ==
    { [status |-> 200, rateLimited |-> FALSE],
      [status |-> 401, rateLimited |-> FALSE],
      [status |-> 403, rateLimited |-> FALSE],
      [status |-> 429, rateLimited |-> TRUE] }

\* How a collaborator call ends: it returns, it throws, or (forwardToClient,
\* whose promise is returned without await) it returns a promise that rejects.
CallOutcomes == {"ok", "throw"}

ForwardOutcomes == {"ok", "throw", "reject"}

\* ---- the dispatch loop ----

\* A candidate is left to try.
HasNextCandidate(r) == idx[r] <= Len(candidates[r])

\* The list is exhausted (or empty) with no response forwarded.
Exhausted(r) == idx[r] > Len(candidates[r])

\* failoverAttempts as the loop passes it: the attempts made before this one.
FailoverAttempts(r) == idx[r] - 1

\* ---- the token manager ----

\* The cached access token can be returned as it is.
CachedTokenValid(a) ==
    accounts[a].access_token /= None /\ accounts[a].token_fresh

StartsRefreshAlways(a) == TRUE

\* A caller starts a refresh only when none is in flight for the account.
StartsRefresh(a) == ~refreshInFlight[a]

\* getValidAccessToken up to its first await, called for request r.
GetValidAccessToken(r, a) ==
    IF accounts[a].refresh_token = None
    THEN /\ tokenResult' = [tokenResult EXCEPT
                 ![r] = [state |-> "ok", token |-> "", flight |-> 0]]
         /\ UNCHANGED <<refreshInFlight, refreshCalls>>
    ELSE IF CachedTokenValid(a)
    THEN /\ tokenResult' = [tokenResult EXCEPT
                 ![r] = [state |-> "ok", token |-> accounts[a].access_token[1],
                         flight |-> 0]]
         /\ UNCHANGED <<refreshInFlight, refreshCalls>>
    ELSE IF StartsRefresh(a)
    THEN /\ refreshInFlight' = [refreshInFlight EXCEPT ![a] = TRUE]
         /\ refreshCalls' = [refreshCalls EXCEPT ![a] = @ + 1]
         /\ tokenResult' = [tokenResult EXCEPT
                 ![r] = [state |-> "pending", token |-> "",
                         flight |-> refreshCalls[a] + 1]]
    ELSE /\ tokenResult' = [tokenResult EXCEPT
                 ![r] = [state |-> "pending", token |-> "",
                         flight |-> refreshCalls[a]]]
         /\ UNCHANGED <<refreshInFlight, refreshCalls>>

\* The callers awaiting the refresh of account a.
Waiters(a) ==
    { r \in Requests :
        /\ pc[r] = "token"
        /\ tokenResult[r].state = "pending"
        /\ candidates[r][idx[r]] = a }

\* What the token endpoint can answer to a refresh: a new access token, a
\* token payload whose access_token is empty, or a failure.
RefreshOutcomes == {"ok", "empty", "fail"}

\* The token endpoint answers the refresh of account a: on success the new
\* token is stored on the account, on failure the account is left as it was;
\* either way the in-flight handle is cleared and every waiter gets the outcome.
refreshDone(a, outcome) ==
    /\ refreshInFlight[a]
    /\ refreshInFlight' = [refreshInFlight EXCEPT ![a] = FALSE]
    /\ refreshLog' = [refreshLog EXCEPT ![a] = Append(@, outcome)]
    /\ LET token == IF outcome = "empty" THEN ""
                    ELSE "tok" \o ToString(refreshCalls[a])
       IN
       IF outcome /= "fail"
       THEN /\ accounts' = [accounts EXCEPT
                    ![a].access_token = Some(token), ![a].token_fresh = TRUE]
            /\ tokenResult' = [r \in Requests |->
                    IF r \in Waiters(a)
                    THEN [tokenResult[r] EXCEPT !.state = "ok", !.token = token]
                    ELSE tokenResult[r]]
       ELSE /\ UNCHANGED accounts
            /\ tokenResult' = [r \in Requests |->
                    IF r \in Waiters(a)
                    THEN [tokenResult[r] EXCEPT !.state = "failed"]
                    ELSE tokenResult[r]]
    /\ UNCHANGED <<refreshCalls, candidates, pc, idx, log, records, result,
                   notDispatchVars>>

\* ---- response classification ----

MarkRateLimitedAlways(accts, a, response, r) ==
    [accts EXCEPT ![a].rate_limited_until = Some(r)]

\* processProxyResponse marks the account when the response is rate-limited.
MarkRateLimited(accts, a, response, r) ==
    IF response.rateLimited
    THEN [accts EXCEPT ![a].rate_limited_until = Some(r)]
    ELSE accts

AttemptOutcomeFailsOverOnAuthError(response, processed, forwarded) ==
    IF processed = "throw" THEN "process_error"
    ELSE IF response.rateLimited \/ response.status \in {401, 403} THEN "rate_limited"
    ELSE IF forwarded = "ok" THEN "forwarded"
    ELSE IF forwarded = "throw" THEN "forward_error"
    ELSE "forward_rejected"

\* How an attempt that got an upstream response ends.
AttemptOutcome(response, processed, forwarded) ==
    IF processed = "throw" THEN "process_error"
    ELSE IF response.rateLimited THEN "rate_limited"
    ELSE IF forwarded = "ok" THEN "forwarded"
    ELSE IF forwarded = "throw" THEN "forward_error"
    ELSE "forward_rejected"

AttemptReturnDropsResponse(outcome) ==
    IF outcome = "forward_rejected" THEN "raise" ELSE "null"

\* What proxyWithAccount hands back to the loop: the response, null ("try
\* next"), or a rejection that got past its try/catch.
AttemptReturn(outcome) ==
    IF outcome = "forwarded" THEN "response"
    ELSE IF outcome = "forward_rejected" THEN "raise"
    ELSE "null"

\* An outcome that the catch block of proxyWithAccount turned into null.
ErrorOutcomes ==
    {"token_error", "prepare_error", "send_error", "process_error",
     "forward_error"}

\* Inbound request r as the engine receives it: req, url, requestMeta and the
\* buffered body.
InboundRequest(r) ==
    [id |-> r, method |-> "POST", path |-> "/v1/messages",
     headers |-> "headers" \o ToString(r), body |-> "body" \o ToString(r),
     timestamp |-> 1000 + r,
     agentUsed |-> IF r = 1 THEN Some("agent") ELSE None]

ForwardingRecordOfNoRequest(r, account, response, failoverAttempts) ==
    [requestId |-> 0, method |-> "", path |-> "", account |-> account,
     requestHeaders |-> "", requestBody |-> "", response |-> response,
     timestamp |-> 0, retryAttempt |-> 0,
     failoverAttempts |-> failoverAttempts, agentUsed |-> None]

\* The object literal passed to forwardToClient.
ForwardingRecord(r, account, response, failoverAttempts) ==
    [requestId |-> InboundRequest(r).id,
     method |-> InboundRequest(r).method,
     path |-> InboundRequest(r).path,
     account |-> account,
     requestHeaders |-> InboundRequest(r).headers,
     requestBody |-> InboundRequest(r).body,
     response |-> response,
     timestamp |-> InboundRequest(r).timestamp,
     retryAttempt |-> 0,
     failoverAttempts |-> failoverAttempts,
     agentUsed |-> InboundRequest(r).agentUsed]

\* ---- proxyWithAccount ----

\* account.api_key || undefined
ApiKeyOrUndefined(a) ==
    IF Truthy(accounts[a].api_key) THEN accounts[a].api_key ELSE None

\* The loop calls proxyWithAccount for the next candidate, which runs up to
\* its await of getValidAccessToken.
proxyWithAccountCall(r) ==
    /\ pc[r] = "select"
    /\ HasNextCandidate(r)
    /\ GetValidAccessToken(r, candidates[r][idx[r]])
    /\ pc' = [pc EXCEPT ![r] = "token"]
    /\ UNCHANGED <<accounts, refreshLog, candidates, idx, log, records, result,
                   notDispatchVars>>

\* The loop takes a null from proxyWithAccount and moves on.
TryNext(r, entry) ==
    /\ log' = [log EXCEPT ![r] = Append(@, entry)]
    /\ idx' = [idx EXCEPT ![r] = @ + 1]
    /\ pc' = [pc EXCEPT ![r] = "select"]
    /\ UNCHANGED <<records, result>>

\* From the token to the await of makeProxyRequest: prepareHeaders, buildUrl
\* and the send; a throw on the way is caught and turned into null.
proxyWithAccountSend(r, prepared) ==
    LET a == candidates[r][idx[r]]
        entry == [account |-> Some(a), sent |-> FALSE, accessToken |-> None,
                  apiKey |-> None, flight |-> tokenResult[r].flight,
                  response |-> None, outcome |-> "pending"]
    IN
    /\ pc[r] = "token"
    /\ tokenResult[r].state \in {"ok", "failed"}
    /\ tokenResult' = [tokenResult EXCEPT ![r] = NoTokenCall]
    /\ IF tokenResult[r].state = "failed"
       THEN TryNext(r, [entry EXCEPT !.outcome = "token_error"])
       ELSE LET withCreds == [entry EXCEPT
                    !.accessToken = Some(tokenResult[r].token),
                    !.apiKey = ApiKeyOrUndefined(a)]
            IN
            IF prepared = "throw"
            THEN TryNext(r, [withCreds EXCEPT !.outcome = "prepare_error"])
            ELSE /\ log' = [log EXCEPT
                         ![r] = Append(@, [withCreds EXCEPT !.sent = TRUE])]
                 /\ pc' = [pc EXCEPT ![r] = "send"]
                 /\ UNCHANGED <<idx, records, result>>
    /\ UNCHANGED <<accountVars, candidates, notDispatchVars>>

\* makeProxyRequest rejects: caught, null.
proxyWithAccountSendFails(r) ==
    LET n == Len(log[r]) IN
    /\ pc[r] = "send"
    /\ log' = [log EXCEPT ![r][n].outcome = "send_error"]
    /\ idx' = [idx EXCEPT ![r] = @ + 1]
    /\ pc' = [pc EXCEPT ![r] = "select"]
    /\ UNCHANGED <<accountVars, candidates, tokenResult, records, result,
                   notDispatchVars>>

\* From the upstream response on: processProxyResponse, the rate-limit check
\* and forwardToClient.
proxyWithAccountResponse(r, response, processed, forwarded) ==
    LET a == candidates[r][idx[r]]
        n == Len(log[r])
        outcome == AttemptOutcome(response, processed, forwarded)
        back == AttemptReturn(outcome)
    IN
    /\ pc[r] = "send"
    /\ log' = [log EXCEPT ![r][n].outcome = outcome,
                          ![r][n].response = Some(response)]
    /\ accounts' = IF processed = "ok"
                   THEN MarkRateLimited(accounts, a, response, r)
                   ELSE accounts
    /\ records' = IF outcome \in {"forwarded", "forward_error", "forward_rejected"}
                  THEN [records EXCEPT ![r] = Append(@,
                           ForwardingRecord(r, Some(a), response, FailoverAttempts(r)))]
                  ELSE records
    /\ IF back = "null"
       THEN /\ idx' = [idx EXCEPT ![r] = @ + 1]
            /\ pc' = [pc EXCEPT ![r] = "select"]
            /\ UNCHANGED result
       ELSE /\ pc' = [pc EXCEPT ![r] = "done"]
            /\ result' = [result EXCEPT ![r] =
                   IF back = "response"
                   THEN Some([kind |-> "response", account |-> Some(a),
                              response |-> Some(response), status |-> response.status])
                   ELSE Some([kind |-> "Error", account |-> Some(a),
                              response |-> None, status |-> 0])]
            /\ UNCHANGED idx
    /\ UNCHANGED <<refreshInFlight, refreshCalls, refreshLog, candidates,
                   tokenResult, notDispatchVars>>

\* ---- proxyUnauthenticated ----

\* The loop, out of candidates, calls proxyUnauthenticated, which runs up to
\* its await of makeProxyRequest; buildUrl and prepareHeaders(req.headers,
\* undefined, undefined) come before its try block.
proxyUnauthenticatedCall(r, prepared) ==
    LET entry == [account |-> None, sent |-> FALSE, accessToken |-> None,
                  apiKey |-> None, flight |-> 0, response |-> None,
                  outcome |-> "pending"]
    IN
    /\ pc[r] = "select"
    /\ Exhausted(r)
    /\ IF prepared = "throw"
       THEN /\ log' = [log EXCEPT
                    ![r] = Append(@, [entry EXCEPT !.outcome = "prepare_error"])]
            /\ pc' = [pc EXCEPT ![r] = "done"]
            /\ result' = [result EXCEPT ![r] =
                   Some([kind |-> "Error", account |-> None,
                         response |-> None, status |-> 0])]
       ELSE /\ log' = [log EXCEPT ![r] = Append(@, [entry EXCEPT !.sent = TRUE])]
            /\ pc' = [pc EXCEPT ![r] = "unauth"]
            /\ UNCHANGED result
    /\ UNCHANGED <<accountVars, candidates, idx, tokenResult, records,
                   notDispatchVars>>

ProviderError == [kind |-> "ProviderError", account |-> None, response |-> None,
                  status |-> 502]

\* makeProxyRequest rejects inside the try block: ProviderError, 502.
proxyUnauthenticatedSendFails(r) ==
    LET n == Len(log[r]) IN
    /\ pc[r] = "unauth"
    /\ log' = [log EXCEPT ![r][n].outcome = "send_error"]
    /\ pc' = [pc EXCEPT ![r] = "done"]
    /\ result' = [result EXCEPT ![r] = Some(ProviderError)]
    /\ UNCHANGED <<accountVars, candidates, idx, tokenResult, records,
                   notDispatchVars>>

UnauthenticatedRecordCountingFailovers(r, response) ==
    ForwardingRecord(r, None, response, FailoverAttempts(r))

\* The record of the unauthenticated attempt: account: null, retryAttempt: 0,
\* failoverAttempts: 0.
UnauthenticatedRecord(r, response) == ForwardingRecord(r, None, response, 0)

\* The response arrives and goes to forwardToClient, unclassified.
proxyUnauthenticatedResponse(r, response, forwarded) ==
    LET n == Len(log[r]) IN
    /\ pc[r] = "unauth"
    /\ records' = [records EXCEPT ![r] = Append(@, UnauthenticatedRecord(r, response))]
    /\ log' = [log EXCEPT
           ![r][n].response = Some(response),
           ![r][n].outcome = IF forwarded = "ok" THEN "forwarded"
                             ELSE IF forwarded = "throw" THEN "forward_error"
                             ELSE "forward_rejected"]
    /\ pc' = [pc EXCEPT ![r] = "done"]
    /\ result' = [result EXCEPT ![r] =
           IF forwarded = "ok"
           THEN Some([kind |-> "response", account |-> None,
                      response |-> Some(response), status |-> response.status])
           ELSE IF forwarded = "throw"
           THEN Some(ProviderError)
           ELSE Some([kind |-> "Error", account |-> None,
                      response |-> None, status |-> 0])]
    /\ UNCHANGED <<accountVars, candidates, idx, tokenResult, notDispatchVars>>

\* ---- specifications ----

NextDispatch ==
    \/ \E r \in Requests : proxyWithAccountCall(r)
    \/ \E a \in Accounts, outcome \in RefreshOutcomes : refreshDone(a, outcome)
    \/ \E r \in Requests, prepared \in CallOutcomes : proxyWithAccountSend(r, prepared)
    \/ \E r \in Requests : proxyWithAccountSendFails(r)
    \/ \E r \in Requests, response \in Responses, processed \in CallOutcomes,
          forwarded \in ForwardOutcomes :
           proxyWithAccountResponse(r, response, processed, forwarded)
    \/ \E r \in Requests, prepared \in CallOutcomes :
           proxyUnauthenticatedCall(r, prepared)
    \/ \E r \in Requests : proxyUnauthenticatedSendFails(r)
    \/ \E r \in Requests, response \in Responses, forwarded \in ForwardOutcomes :
           proxyUnauthenticatedResponse(r, response, forwarded)

\* The state before any request has taken a step, for the requests in live.
InitRequests(live, lists) ==
    /\ accounts \in [Accounts -> AccountConfigs]
    /\ refreshInFlight = [a \in Accounts |-> FALSE]
    /\ refreshCalls = [a \in Accounts |-> 0]
    /\ refreshLog = [a \in Accounts |-> <<>>]
    /\ candidates \in { c \in [Requests -> lists \cup {<<>>}] :
                          \A r \in Requests :
                              IF r \in live THEN c[r] \in lists ELSE c[r] = <<>> }
    /\ pc = [r \in Requests |-> IF r \in live THEN "select" ELSE "idle"]
    /\ idx = [r \in Requests |-> 1]
    /\ tokenResult = [r \in Requests |-> NoTokenCall]
    /\ log = [r \in Requests |-> <<>>]
    /\ records = [r \in Requests |-> <<>>]
    /\ result = [r \in Requests |-> None]
    /\ StoreIdle
    /\ now = 0
    /\ ExchangeIdle

\* The candidate lists that name the accounts in the order of their numbers.
\* Accounts are interchangeable and every assignment of configurations to them
\* is enumerated, so a list in another order is one of these renamed.
ListsInAccountOrder ==
    { list \in CandidateLists : \A i \in 1..Len(list) : list[i] = i }

\* One inbound request with a candidate list of any length over accounts of
\* any configuration.
InitDispatch == InitRequests({1}, ListsInAccountOrder)

SpecDispatch == InitDispatch /\ [][NextDispatch]_vars

\* Every request in flight at once, each with a single candidate.
InitConcurrent == InitRequests(Requests, { list \in CandidateLists : Len(list) = 1 })

\* The upstream answers of the concurrent runs: one forwarded, one rate-limited.
ConcurrentResponses == { resp \in Responses : resp.status \in {200, 429} }

\* The same steps with fewer upstream answers, sends that arrive and
\* collaborators that return: what varies is the order in which the requests
\* and the refreshes move.
NextConcurrent ==
    \/ \E r \in Requests : proxyWithAccountCall(r)
    \/ \E a \in Accounts, outcome \in RefreshOutcomes \ {"empty"} :
           refreshDone(a, outcome)
    \/ \E r \in Requests : proxyWithAccountSend(r, "ok")
    \/ \E r \in Requests, response \in ConcurrentResponses :
           proxyWithAccountResponse(r, response, "ok", "ok")
    \/ \E r \in Requests : proxyUnauthenticatedCall(r, "ok")
    \/ \E r \in Requests, response \in { resp \in Responses : resp.status = 200 } :
           proxyUnauthenticatedResponse(r, response, "ok")

SpecConcurrent == InitConcurrent /\ [][NextConcurrent]_vars

(***************************************************************************)
(* Claims about the dispatch engine (SpecDispatch) and the token manager   *)
(* (SpecConcurrent)                                                        *)
(***************************************************************************)

\* The attempts of request r that used no account.
UnauthAttempts(r) == { i \in 1..Len(log[r]) : log[r][i].account = None }

\* Attempt i of request r ended with "try next".
TriedNext(r, i) == log[r][i].outcome \in ErrorOutcomes \cup {"rate_limited"}

C2_OneUnauthenticatedAttempt ==
    \A r \in Requests :
        /\ Cardinality(UnauthAttempts(r)) <= 1
        /\ \A i \in UnauthAttempts(r) :
               /\ i = Len(candidates[r]) + 1
               /\ \A j \in 1..(i - 1) : TriedNext(r, j)
               /\ log[r][i].accessToken = None
               /\ log[r][i].apiKey = None
        /\ (pc[r] = "done" /\ \A j \in 1..Len(candidates[r]) :
                                  j <= Len(log[r]) /\ TriedNext(r, j))
              => \E i \in UnauthAttempts(r) :
                     /\ log[r][i].sent
                     /\ \/ /\ log[r][i].outcome = "forwarded"
                           /\ result[r][1].kind = "response"
                           /\ result[r][1].response = log[r][i].response
                        \/ /\ log[r][i].outcome /= "forwarded"
                           /\ result[r][1].kind = "ProviderError"
                           /\ result[r][1].status = 502

\* C6: the engine moves on from a candidate only after a rate-limit
\* classification or a thrown error; a response that is not classified
\* rate-limited, whatever its status, is handed to forwardToClient unchanged,
\* ends the loop, and is what the engine returns when forwardToClient returns.
C6_OnlyRateLimitOrErrorAdvances ==
    \A r \in Requests : \A i \in 1..Len(log[r]) :
        LET e == log[r][i] IN
        e.account /= None =>
            /\ i < Len(log[r]) =>
                   \/ e.outcome \in ErrorOutcomes
                   \/ e.response /= None /\ e.response[1].rateLimited
            /\ (e.response /= None /\ ~e.response[1].rateLimited
                    /\ e.outcome /= "process_error") =>
                   /\ e.outcome \in {"forwarded", "forward_error", "forward_rejected"}
                   /\ \E n \in 1..Len(records[r]) :
                          /\ records[r][n].account = e.account
                          /\ records[r][n].response = e.response[1]
            /\ e.outcome = "forwarded" =>
                   /\ i = Len(log[r])
                   /\ pc[r] = "done"
                   /\ result[r] = Some([kind |-> "response", account |-> e.account,
                                         response |-> e.response,
                                         status |-> e.response[1].status])

\* A 401 that the inspector did not classify as rate-limited was returned to
\* the caller while a second candidate was left untried.
C6_Witness ==
    \E r \in Requests :
        /\ Len(candidates[r]) = 2
        /\ Len(log[r]) = 1
        /\ log[r][1].outcome = "forwarded"
        /\ result[r] /= None
        /\ result[r][1].status = 401

\* C7: an attempt on an account never raises to the loop: every failure in it
\* ends as null.  The engine's caller sees an error only when every candidate
\* attempt and the unauthenticated attempt have failed, and the error is then
\* a ProviderError.
C7_AttemptsNeverRaise ==
    \A r \in Requests :
        /\ \A i \in 1..Len(log[r]) :
               (log[r][i].account /= None /\ log[r][i].outcome /= "pending")
                   => AttemptReturn(log[r][i].outcome) \in {"null", "response"}
        /\ (result[r] /= None /\ result[r][1].kind /= "response") =>
               /\ result[r][1].kind = "ProviderError"
               /\ result[r][1].account = None
               /\ Len(log[r]) = Len(candidates[r]) + 1
               /\ \A j \in 1..Len(candidates[r]) : TriedNext(r, j)
               /\ log[r][Len(log[r])].outcome /= "forwarded"

\* C3: single-flight refresh.  For every account at most one refresh request is
\* in flight at any time, every caller that finds the token expired waits for
\* the refresh in flight for its own account, a new refresh request is sent
\* only after the previous one failed, and all callers that waited for the
\* same refresh were given the same access token.
C3_SingleFlightRefresh ==
    /\ \A a \in Accounts :
           /\ refreshCalls[a] =
                  Len(refreshLog[a]) + (IF refreshInFlight[a] THEN 1 ELSE 0)
           /\ refreshCalls[a] <=
                  1 + Cardinality({ n \in 1..Len(refreshLog[a]) :
                                      refreshLog[a][n] = "fail" })
    /\ \A r \in Requests :
           (pc[r] = "token" /\ tokenResult[r].state = "pending") =>
               LET a == candidates[r][idx[r]] IN
               /\ refreshInFlight[a]
               /\ tokenResult[r].flight = refreshCalls[a]
    /\ \A r1, r2 \in Requests :
           \A i \in 1..Len(log[r1]), j \in 1..Len(log[r2]) :
               (/\ log[r1][i].account /= None
                /\ log[r1][i].account = log[r2][j].account
                /\ log[r1][i].flight >= 1
                /\ log[r1][i].flight = log[r2][j].flight)
               => log[r1][i].accessToken = log[r2][j].accessToken

\* Two requests waited for the one refresh of the same account and both went
\* on with the token it produced; the token endpoint was called once.
C3_Witness ==
    \E r1, r2 \in Requests :
        /\ r1 /= r2
        /\ Len(log[r1]) >= 1
        /\ Len(log[r2]) >= 1
        /\ log[r1][1].account = log[r2][1].account
        /\ log[r1][1].flight = 1
        /\ log[r2][1].flight = 1
        /\ log[r1][1].accessToken = Some("tok1")
        /\ log[r2][1].accessToken = Some("tok1")
        /\ refreshCalls[log[r1][1].account[1]] = 1

\* isMaxAccount: no API key and a refresh token.
OAuthMode(a) == ~Truthy(accounts[a].api_key) /\ accounts[a].refresh_token /= None

\* C13: an attempt on an OAuth-mode candidate for which getValidAccessToken
\* failed or returned the empty token sends no upstream request, and the
\* engine goes on to the next candidate.
C13_NoTokenNoRequest ==
    \A r \in Requests : \A i \in 1..Len(log[r]) :
        LET e == log[r][i] IN
        (/\ e.account /= None
         /\ OAuthMode(e.account[1])
         /\ e.outcome = "token_error" \/ e.accessToken = Some(""))
        => (~e.sent /\ idx[r] > i)

\* The attempts of request r that have ended.
Ended(r) == { i \in 1..Len(log[r]) : log[r][i].outcome /= "pending" }

\* The attempts of request r that reached forwardToClient.
Handed(r) ==
    { i \in Ended(r) :
        log[r][i].outcome \in {"forwarded", "forward_error", "forward_rejected"} }

\* Record rec carries request r, the account and the response of attempt e.
RecordOf(rec, r, e) ==
    /\ rec.requestId = r
    /\ rec.method = InboundRequest(r).method
    /\ rec.path = InboundRequest(r).path
    /\ rec.account = e.account
    /\ rec.requestHeaders = InboundRequest(r).headers
    /\ rec.requestBody = InboundRequest(r).body
    /\ e.response = Some(rec.response)
    /\ rec.timestamp = InboundRequest(r).timestamp
    /\ rec.retryAttempt \in Nat
    /\ rec.failoverAttempts \in Nat
    /\ rec.agentUsed = InboundRequest(r).agentUsed

\* C14 as stated: every attempt that has ended, however it ended, produced a
\* forwarding record that was handed to forwardToClient.
C14_AsStated ==
    \A r \in Requests :
        /\ Len(records[r]) = Cardinality(Ended(r))
        /\ \A i \in Ended(r) :
               \E n \in 1..Len(records[r]) :
                   records[r][n].requestId = r
                       /\ records[r][n].account = log[r][i].account

\* C14, amended: an attempt, the unauthenticated one included, hands a
\* forwarding record (request id, method, path, account or none, request
\* headers and body, upstream response, timestamp, retry and failover
\* counters, agent tag) to forwardToClient exactly when it got an upstream
\* response that was processed and not classified rate-limited; an attempt
\* that ends in a rate-limit classification or in an error thrown before that
\* point produces no record.
C14_RecordPerForwardedAttempt ==
    \A r \in Requests :
        /\ Len(records[r]) = Cardinality(Handed(r))
        /\ \A i \in Handed(r) :
               \E n \in 1..Len(records[r]) : RecordOf(records[r][n], r, log[r][i])
        /\ \A n \in 1..Len(records[r]) :
               \E i \in Handed(r) : RecordOf(records[r][n], r, log[r][i])
        /\ \A i \in Ended(r) \ Handed(r) :
               \/ log[r][i].outcome \in ErrorOutcomes
               \/ log[r][i].outcome = "rate_limited"

\* A request whose first attempt was rate-limited and whose second attempt
\* was forwarded has handed over one record, that of the second attempt.
C14_Witness ==
    \E r \in Requests :
        /\ Len(log[r]) = 2
        /\ log[r][1].outcome = "rate_limited"
        /\ log[r][2].outcome = "forwarded"
        /\ Len(records[r]) = 1
        /\ RecordOf(records[r][1], r, log[r][2])

\* The last attempt of request r ends in this step.
EndsNow(r) ==
    /\ log'[r] /= log[r]
    /\ log'[r][Len(log'[r])].outcome /= "pending"

\* How the attempt of request r that ends in this step ended.
OutcomeNow(r) == log'[r][Len(log'[r])].outcome

\* The outcomes of an error thrown while the token is obtained, the request is
\* prepared and sent, or the response is processed.
ThrownOutcomes == {"token_error", "prepare_error", "send_error", "process_error"}

\* C15: an attempt on an account that ends in a thrown error hands control
\* back exactly as a rate-limited attempt does (next candidate, nothing
\* returned, nothing forwarded) and changes no account's rateLimitedUntil; an
\* account's rateLimitedUntil changes only in a step that ends an attempt on
\* that account with a response classified rate-limited.
C15_ErrorsAdvanceWithoutMark ==
    [][/\ \A r \in Requests :
              (EndsNow(r) /\ log'[r][Len(log'[r])].account /= None) =>
                  /\ OutcomeNow(r) \in ThrownOutcomes \cup {"rate_limited"} =>
                         /\ idx'[r] = idx[r] + 1
                         /\ pc'[r] = "select"
                         /\ result'[r] = result[r]
                         /\ records'[r] = records[r]
                  /\ OutcomeNow(r) \in ThrownOutcomes =>
                         \A a \in Accounts :
                             accounts'[a].rate_limited_until
                                 = accounts[a].rate_limited_until
       /\ \A a \in Accounts :
              accounts'[a].rate_limited_until /= accounts[a].rate_limited_until =>
                  \E r \in Requests :
                      /\ EndsNow(r)
                      /\ log'[r][Len(log'[r])].account = Some(a)
                      /\ OutcomeNow(r) = "rate_limited"
                      /\ log'[r][Len(log'[r])].response[1].rateLimited]_vars

\* A send to the first candidate failed and left it unmarked; the second
\* candidate was rate-limited and is marked.
C15_Witness ==
    \E r \in Requests :
        /\ Len(log[r]) = 2
        /\ log[r][1].outcome = "send_error"
        /\ log[r][2].outcome = "rate_limited"
        /\ accounts[log[r][1].account[1]].rate_limited_until = None
        /\ accounts[log[r][2].account[1]].rate_limited_until /= None
        /\ idx[r] = 3

\* The attempts of request r whose upstream request is out or being prepared.
InFlight(r) == { i \in 1..Len(log[r]) : log[r][i].outcome = "pending" }

\* Within a request the attempts are made one after the other.
Sequential(r) ==
    /\ Cardinality(InFlight(r)) <= 1
    /\ \A i \in 1..(Len(log[r]) - 1) : TriedNext(r, i)
    /\ (pc[r] = "token" /\ Len(log[r]) >= 1) => TriedNext(r, Len(log[r]))

\* C16: within a request at most one attempt is in flight, an attempt starts
\* only after the one before it ended with "try next", and at most one upstream
\* response is handed to forwardToClient for the request.
C16_SequentialOneForward ==
    \A r \in Requests :
        /\ Sequential(r)
        /\ Len(records[r]) <= 1

\* C20: the record of the unauthenticated attempt carries no account,
\* retryAttempt 0 and failoverAttempts 0, however many candidates were tried
\* before it; the record of an attempt on an account carries retryAttempt 0
\* and the failoverAttempts the loop passed to that attempt, which is the
\* number of attempts made before it.
C20_RecordCounters ==
    \A r \in Requests : \A n \in 1..Len(records[r]) :
        LET rec == records[r][n] IN
        /\ rec.retryAttempt = 0
        /\ rec.account = None =>
               /\ rec.failoverAttempts = 0
               /\ Len(log[r]) = Len(candidates[r]) + 1
               /\ log[r][Len(log[r])].account = None
               /\ log[r][Len(log[r])].response = Some(rec.response)
        /\ rec.account /= None =>
               \E i \in 1..Len(log[r]) :
                   /\ log[r][i].account = rec.account
                   /\ candidates[r][i] = rec.account[1]
                   /\ log[r][i].response = Some(rec.response)
                   /\ rec.failoverAttempts = i - 1

\* After a rate-limited first candidate, the second candidate's response was
\* handed over with failoverAttempts 1, the hand-over threw, and the
\* unauthenticated attempt's response was handed over with failoverAttempts 0.
C20_Witness ==
    \E r \in Requests :
        /\ Len(candidates[r]) = 2
        /\ Len(records[r]) = 2
        /\ records[r][1].account = Some(candidates[r][2])
        /\ records[r][1].failoverAttempts = 1
        /\ records[r][2].account = None
        /\ records[r][2].failoverAttempts = 0
        /\ records[r][2].retryAttempt = 0

=============================================================================
